---- MODULE Spec2Model ----
(***************************************************************************)
(* One iterative-analysis job: the persisted row (analysis/models.py), the *)
(* background worker that runs the controller                              *)
(* (analysis/views.py _process_analysis_async and                          *)
(* services/iterative_analysis_service.py run_iterative_analysis) and the  *)
(* cancel and results endpoints (analysis/views.py cancel, results): Spec. *)
(* The table of jobs with the destroy and bulk_delete endpoints            *)
(* (analysis/views.py), the workers reduced to their writes: TableSpec.    *)
(* The ingestion of documents (services/cognee_service.py add_document,    *)
(* called by the threads of documents/views.py): IngestSpec.               *)
(* The search cache of a CogneeService with prune_data and complete_reset: *)
(* SearchSpec.  A call of execute_rag_query with the grader and the web    *)
(* search of services/gemini_validation_service.py: GraderSpec.            *)
(*                                                                         *)
(* Conventions.  An analysis payload is identified by the iteration that   *)
(* produced it (0 = the initial analysis, k = the analysis refined in      *)
(* iteration k).  A JSON column holding None and one holding an empty list *)
(* are both the empty sequence for iteration_history (every reader in the  *)
(* code tests it for truthiness only); for final_analysis None and {} are  *)
(* kept apart.  A timestamp is the position of the record in the history   *)
(* (datetime.now() of records appended one after the other).               *)
(***************************************************************************)
EXTENDS Integers, Sequences, FiniteSets, TLC

\* ------------------------------------------------------------------ bounds
\* Largest number of queries one RETRIEVE phase returns in the model.
MaxQueries == 3
\* Number of document summaries the registry returns when it is not empty.
MaxDocs == 2

\* Number of jobs in the table.
MaxJobs == 2

\* Number of add_document calls made in the model.
MaxIngest == 3

\* How many documents the RAG store cognifies between two clearings.
MaxStored == 2

\* How many calls of execute_rag_query are followed.
MaxCalls == 2

\* How many Document rows are followed.
MaxDocuments == 2

\* ------------------------------------------------------- program constants
max_iterations_off == 10 + 1
max_iterations == 10
CompleteThreshold == 7

\* final_analysis column: NULL (never written) and the empty dict {}.
NoneAnalysis == -2
EmptyAnalysis == -1
\* An evaluation whose completeness_score is not a JSON number (null, "8/10").
NonNumeric == -1

Terminal == {"COMPLETED", "FAILED", "CANCELLED"}

\* The completeness_score the LLM may answer to EVALUATE (is_analysis_complete is
\* chosen beside it).
EvalScores == {4, CompleteThreshold, 9, 15, NonNumeric}
\* How many queries RETRIEVE may return (0: parse failure or empty list).
QueryCounts == {0, MaxQueries}
\* How many summaries the registry may hold for the company filter.
DocCounts == {0, MaxDocs}
\* The primary keys of the jobs created.
JobIds == 1..MaxJobs

VARIABLES
  db,                \* the persisted row of the job
  obj,               \* the worker's in-memory model instance (views.py:72)
  pc,                \* the worker's position
  document_summaries, \* controller local: number of summaries
  current_analysis,  \* controller local
  iteration_history, \* controller local
  iteration,         \* controller local: loop variable
  rag_queries,       \* controller local
  rag_results,       \* controller local
  results,           \* what run_iterative_analysis returned
  cpc,               \* the cancel endpoint's position
  response,          \* the last HTTP response of the cancel and results endpoints
  jobs,              \* the table of jobs: a function from the ids that exist to rows
  dreq,              \* the destroy request being served
  breq,              \* the bulk_delete request being served
  reply,             \* the last HTTP response of destroy and bulk_delete
  registry_file,     \* document_registry.pkl: the registry on disk
  rag_store,         \* how many times each document text was added to the RAG store
  rag_texts,         \* the texts passed to cognee.add
  search_cache,      \* self._search_cache of one CogneeService
  knowledge,         \* how many documents the RAG store has cognified
  sanswer,           \* what the last search_context, prune_data or complete_reset returned
  gcall,             \* the call of execute_rag_query in progress
  gresult,           \* the dict the last call of execute_rag_query returned
  gdone,             \* how many calls of execute_rag_query have returned
  service,           \* per ingestion worker: its CogneeService and its add_document call
  outcome,           \* the dict the last add_document call returned
  started,           \* number of add_document calls made so far
  documents,         \* the Document rows: status and content_size by id
  dthread,           \* the thread that processes a document: position, path, result
  accepted,          \* history variable: successful registrations per fingerprint
  overlap,           \* history variable: two services were alive at the same time
  cancelAt,          \* history variable: the moment the cancel request was accepted
  faults             \* history variable: the phase failures that happened in this run

vars == <<db, obj, pc, document_summaries, current_analysis, iteration_history,
          iteration, rag_queries, rag_results, results, cpc, response, cancelAt,
          faults, jobs, dreq, breq, reply, registry_file, rag_store, rag_texts, service,
          outcome, started, accepted, overlap, search_cache, knowledge, sanswer, gcall, gresult,
          gdone, documents, dthread>>

locals == <<document_summaries, current_analysis, iteration_history, iteration,
            rag_queries, rag_results>>

\* The single job followed step by step, and the table of jobs with its requests.
job == <<db, obj, pc, locals, results, cpc, response, cancelAt, faults>>
table == <<jobs, dreq, breq, reply>>
\* The document registry, the RAG store and the ingestion workers.
ingestion == <<registry_file, rag_store, rag_texts, service, outcome, started, accepted,
               overlap>>

\* What no step of the worker of the job touches.
\* The search cache of a service and the content of the RAG store.
searching == <<search_cache, knowledge, sanswer>>

\* The variables of the other services.
\* The call of the grader.
grading == <<gcall, gresult, gdone>>

\* The Document rows and the thread that processes them.
storing == <<documents, dthread>>

elsewhere == <<searching, grading, storing>>

outside == <<cpc, response, table, ingestion, elsewhere>>

\* ------------------------------------------------------------ pure helpers
Falsy(a) == a \in {NoneAnalysis, EmptyAnalysis}

IsNumber(s) == s # NonNumeric

Record_unnumbered(it, ty, ts) ==
  [iteration |-> 0, type |-> ty, timestamp |-> ts, analysis |-> NoneAnalysis,
   completeness_score |-> 0, is_complete |-> FALSE, queries |-> <<>>, results |-> <<>>]

Record(it, ty, ts) ==
  [iteration |-> it, type |-> ty, timestamp |-> ts, analysis |-> NoneAnalysis,
   completeness_score |-> 0, is_complete |-> FALSE, queries |-> <<>>, results |-> <<>>]

Evaluations(h) == {i \in DOMAIN h : h[i].type = "evaluation"}

CountEvaluations(h) == Cardinality(Evaluations(h))

RECURSIVE SumQueries(_)
SumQueries(h) ==
  IF h = <<>> THEN 0
  ELSE (IF h[Len(h)].type = "rag_queries" THEN Len(h[Len(h)].queries) ELSE 0)
       + SumQueries(SubSeq(h, 1, Len(h) - 1))

MaxOf(S) == CHOOSE x \in S : \A y \in S : y <= x

get_final_completeness_score(h) ==
  IF Evaluations(h) = {} THEN 0 ELSE h[MaxOf(Evaluations(h))].completeness_score

\* ------------------------------------------------------- the job model
ProgressFields == {"total_iterations", "documents_analyzed", "rag_queries_executed",
                   "final_completeness_score", "iteration_history", "final_analysis"}

\* save() raises when final_completeness_score cannot be stored in the FloatField.
Storable(row) == IsNumber(row.final_completeness_score)

\* update_analysis_progress: a fresh load of the row, update_progress(**kw), and a
\* save of the six progress columns; a failure of the save is logged and swallowed.
update_progress(row, kw) ==
  LET new == [f \in DOMAIN row |->
                IF f \in ProgressFields /\ f \in DOMAIN kw THEN kw[f] ELSE row[f]]
  IN IF Storable(new) THEN new ELSE row

Get(d, k, default) == IF k \in d.keys THEN d[k] ELSE default

NoResults ==
  [keys |-> {}, error |-> "", cancelled |-> FALSE, final_analysis |-> NoneAnalysis,
   iteration_history |-> <<>>, total_iterations |-> 0, documents_analyzed |-> 0,
   aq_final_completeness_score |-> 0, aq_rag_queries_executed |-> 0,
   termination_reason |-> ""]

mark_completed_stale(self, r) == [self EXCEPT !.status = "COMPLETED"]

mark_completed(self, r) ==
  [self EXCEPT
     !.status = "COMPLETED",
     !.final_analysis = Get(r, "final_analysis", EmptyAnalysis),
     !.iteration_history = Get(r, "iteration_history", <<>>),
     !.total_iterations = Get(r, "total_iterations", 0),
     !.documents_analyzed = Get(r, "documents_analyzed", 0),
     !.rag_queries_executed =
        IF "analysis_quality" \in r.keys THEN r.aq_rag_queries_executed ELSE 0,
     !.final_completeness_score =
        IF "analysis_quality" \in r.keys THEN r.aq_final_completeness_score ELSE 0]

\* The partial-result fields both mark_failed and mark_cancelled copy.
Preserve(self, r) ==
  [self EXCEPT
     !.final_analysis = Get(r, "final_analysis", self.final_analysis),
     !.iteration_history = Get(r, "iteration_history", self.iteration_history),
     !.total_iterations = Get(r, "total_iterations", self.total_iterations),
     !.documents_analyzed = Get(r, "documents_analyzed", self.documents_analyzed),
     !.rag_queries_executed =
        IF "analysis_quality" \in r.keys THEN r.aq_rag_queries_executed
        ELSE self.rag_queries_executed,
     !.final_completeness_score =
        IF "analysis_quality" \in r.keys THEN r.aq_final_completeness_score
        ELSE self.final_completeness_score]

\* partial is the returned dict without its 'error' key; None when nothing is left.
mark_failed(self, error_message, partial) ==
  LET s == [self EXCEPT !.status = "FAILED", !.error_message = error_message]
  IN IF partial.keys # {} THEN Preserve(s, partial) ELSE s

mark_cancelled_drop(self, r, message) ==
  [self EXCEPT !.status = "CANCELLED", !.error_message = message]

mark_cancelled(self, r, message) ==
  LET s == [self EXCEPT !.status = "CANCELLED"]
      t == IF r.keys # {} THEN Preserve(s, r) ELSE s
  IN IF message # "" THEN [t EXCEPT !.error_message = message] ELSE t

mark_cancel_requested_status(row) ==
  [row EXCEPT !.cancel_requested = TRUE, !.status = "CANCELLED"]

mark_cancel_requested(row) == [row EXCEPT !.cancel_requested = TRUE]

\* Scans the history for the record of type initial_analysis or refinement with the
\* greatest timestamp (the first one among equal timestamps).
get_latest_iteration_analysis(row) ==
  LET h == row.iteration_history
      cand == {i \in DOMAIN h : h[i].type \in {"initial_analysis", "refinement"}}
  IN IF h = <<>> \/ cand = {} THEN NoneAnalysis
     ELSE LET ts == MaxOf({h[i].timestamp : i \in cand})
              first == CHOOSE i \in cand :
                         /\ h[i].timestamp = ts
                         /\ \A j \in cand : h[j].timestamp = ts => i <= j
          IN h[first].analysis

has_partial_results(row) ==
  IF row.status \notin {"CANCELLED", "FAILED"} THEN FALSE
  ELSE \/ ~Falsy(row.final_analysis)
       \/ ~Falsy(get_latest_iteration_analysis(row))
       \/ Len(row.iteration_history) > 0

\* An HTTP response: the endpoint that answered, the status code, the 'status' entry
\* of the body and its 'message' (or 'error') entry.
Reply(endpoint, code, status, message) ==
  [endpoint |-> endpoint, code |-> code, status |-> status, message |-> message]

NoResponse == Reply("", 0, "", "")

\* The answer of destroy and bulk_delete: the request (pk or analysis_ids) it answers,
\* the status code and the body's error, running_analyses and deleted_count.
Answer(endpoint, id, ids, code, error, running, count) ==
  [endpoint |-> endpoint, id |-> id, ids |-> ids, code |-> code, error |-> error,
   running_analyses |-> running, deleted_count |-> count]

NoReply == Answer("", 0, {}, 0, "", {}, 0)

NoDestroy == [pc |-> "idle", id |-> 0]

NoBulk == [pc |-> "idle", ids |-> {}, deleted_count |-> 0]

\* ------------------------------------------------------ the document registry
\* str.lower() on the company names, form types and phrases of the model's texts.
Lower(x) ==
  IF x \in {"Acme", "ACME", "acme"} THEN "acme"
  ELSE IF x \in {"10-K", "10-k"} THEN "10-k"
  ELSE IF x = "Reuters" THEN "reuters"
  ELSE x

\* hashlib.sha256(...).hexdigest(), taken to be free of collisions.
sha256(x) == <<"sha256", x>>

Metadata(company, form, date, accession) ==
  [company_name |-> company, form_type |-> form, filing_date |-> date,
   accession_number |-> accession]

\* The documents ingested: a filing, and the same filing with its metadata in another
\* case.
Filing == [content |-> "A", metadata |-> Metadata("Acme", "10-K", "2024-01-31", "0001")]
FilingUpper == [content |-> "A", metadata |-> Metadata("ACME", "10-k", "2024-01-31", "0001")]
\* A filing of another company.
BetaFiling == [content |-> "C", metadata |-> Metadata("Beta", "8-K", "2024-02-29", "0003")]

\* The documents a caller submits of its own accord.
Originals == {Filing, FilingUpper, BetaFiling}

\* f"{accession_number}_forced_{timestamp}" of the force-store branch.
forced_accession(accession) ==
  IF accession = "0001" THEN "0001_forced_20240301_120000"
  ELSE IF accession = "0003" THEN "0003_forced_20240301_120000"
  ELSE "unknown_forced_20240301_120000"

\* The document of the force-store branch: the same content, and a copy of the
\* metadata whose accession_number alone is changed.
Forced(d) ==
  [content |-> d.content,
   metadata |-> [d.metadata EXCEPT !.accession_number = forced_accession(@)]]

ForcedDocs == {Forced(d) : d \in Originals}

Docs == Originals \cup ForcedDocs

create_document_fingerprint(content, metadata) ==
  sha256([content_hash |-> sha256(content),
          company_name |-> Lower(metadata.company_name),
          form_type |-> Lower(metadata.form_type),
          filing_date |-> metadata.filing_date,
          accession_number |-> metadata.accession_number])

Fingerprints == {create_document_fingerprint(d.content, d.metadata) : d \in Docs}

\* The threads that run _process_document_sync.
IngestWorkers == {1, 2}

\* A worker without a CogneeService, and the value of outcome before any call.
NoDoc == [content |-> "", metadata |-> Metadata("", "", "", "")]

\* summary is None until _generate_document_summary returns.
NoSummary == <<>>

\* The summary the LLM returns for a document, and the one built without it.
ai_summary(content, metadata) ==
  <<"ai_summary", metadata.company_name, metadata.form_type, content>>

generate_basic_summary(content, metadata) ==
  <<"basic_summary", metadata.form_type, metadata.company_name, metadata.filing_date>>

Summaries ==
  {ai_summary(d.content, d.metadata) : d \in Docs}
    \cup {generate_basic_summary(d.content, d.metadata) : d \in Docs}

\* document_text of _add_document_async, by its sections: the metadata header and
\* the content.
document_text_summarised(content, metadata) ==
  << <<"Document Metadata", metadata.company_name, metadata.form_type,
       metadata.filing_date, metadata.accession_number>>,
     <<"Document Content", content>>,
     generate_basic_summary(content, metadata) >>

document_text(content, metadata) ==
  << <<"Document Metadata", metadata.company_name, metadata.form_type,
       metadata.filing_date, metadata.accession_number>>,
     <<"Document Content", content>> >>

\* document_registry.pkl: absent, or the bytes written by pickle.dump.  The pickle of
\* a dict is the collection of its items.
NoFile == [exists |-> FALSE, data |-> {}]

pickle_dump(registry) == {<<f, registry[f]>> : f \in DOMAIN registry}

pickle_load_truncated(data) ==
  [f \in {p[1] : p \in data} |->
     [(CHOOSE p \in data : p[1] = f)[2] EXCEPT !.full_content = ""]]

pickle_load(data) ==
  [f \in {p[1] : p \in data} |-> (CHOOSE p \in data : p[1] = f)[2]]

save_document_registry(registry) == [exists |-> TRUE, data |-> pickle_dump(registry)]

load_document_registry(file) ==
  IF file.exists THEN pickle_load(file.data) ELSE <<>>

NoService ==
  [pc |-> "none", document_registry |-> <<>>, doc |-> NoDoc, summary |-> NoSummary,
   rag_success |-> "pending"]

\* ------------------------------------------------------------ search helpers
\* The queries searched and the search_type strings passed by the callers.
SearchQueries == {"revenue", "risks"}

SearchTypes == {"natural", "chunks"}

\* search_type_map.get(search_type.lower(), SearchType.GRAPH_COMPLETION)
search_type_map(search_type) ==
  IF search_type = "insights" THEN "INSIGHTS"
  ELSE IF search_type = "chunks" THEN "CHUNKS"
  ELSE IF search_type = "summaries" THEN "SUMMARIES"
  ELSE "GRAPH_COMPLETION"

\* hashlib.md5(f"{query}:{search_type}"), taken to be free of collisions.
create_cache_key(query, search_type) == <<"md5", query, ":", search_type>>

\* What cognee.search returns for a query on a store that has cognified n documents:
\* nothing on an empty store, else one text made from the store's content.
cognee_search(query_type, query_text, n) ==
  IF n = 0 THEN <<>> ELSE << <<query_type, query_text, n>> >>

\* self._search_cache[cache_key] = results
Cached(cache, cache_key, search_results) ==
  [k \in DOMAIN cache \cup {cache_key} |->
     IF k = cache_key THEN search_results ELSE cache[k]]

Answer_(op, cache_key, search_results, searched, ok) ==
  [op |-> op, cache_key |-> cache_key, results |-> search_results,
   searched |-> searched, ok |-> ok]

NoAnswer == Answer_("none", <<>>, <<>>, FALSE, FALSE)

NoOutcome ==
  [worker |-> 0, doc |-> NoDoc, success |-> FALSE, duplicate |-> FALSE, reason |-> "",
   fingerprint |-> <<>>]

\* ------------------------------------------------------------ grader helpers
\* A text, by what the checks of the grader read of it: the indicator phrases that
\* occur in it, its length, and what was appended to it.
Text(said, tokens, len) == [said |-> said, tokens |-> tokens, len |-> len, suffix |-> ""]

\* None, and the empty string a response is stripped to.
NoneText == Text("None", {}, 0)
EmptyText == Text("", {}, 0)

RagText == Text("rag", {}, 300)

\* The results search_context hands to the grader.
RagResponses == {<<>>, <<RagText>>}

\* The phrases that occur in the web texts, and the lengths of the web texts.
Tokens == {"$", "2024", "Reuters", "as of", "cannot provide"}

Lengths == {50, 100, 150, 500, 2000}

WebTexts == {Text("web", ts, n) : ts \in SUBSET Tokens, n \in Lengths}

\* any(indicator in search_response for ...) and the same on search_response.lower()
Contains(text, indicators) == text.tokens \cap indicators # {}

ContainsLower(text, indicators) == {Lower(t) : t \in text.tokens} \cap indicators # {}

\* enhanced_response['response'] + warning
Concat(text, suffix) == [text EXCEPT !.suffix = suffix, !.len = @ + 135]

warning == "[Note: This information from web search may not meet all financial data quality standards. Please verify with authoritative sources.]"

\* gemini_validation_service.py:269-332; quality_score is kept in tenths.
QualityIndicators(search_response) ==
  [has_sources |->
     ContainsLower(search_response,
                   {"reuters", "bloomberg", "wall street journal", "financial times",
                    "sec filing", "10-k", "10-q", "federal reserve", "treasury",
                    "yahoo finance", "marketwatch", "source:", "according to"}),
   has_specific_data |->
     Contains(search_response,
              {"$", "%", "billion", "million", "quarter", "Q1", "Q2", "Q3", "Q4",
               "2024", "2025", "fiscal year"}),
   has_timeframe |->
     ContainsLower(search_response,
                   {"as of", "current", "latest", "recent", "today", "this year",
                    "january", "february", "march", "april", "may", "june", "july",
                    "august", "september", "october", "november", "december"}),
   appropriate_length |-> 100 < search_response.len /\ search_response.len < 2000,
   no_disclaimers_only |->
     ~(/\ search_response.len < 200
       /\ ContainsLower(search_response,
                        {"cannot provide", "unable to access",
                         "no information available"}))]

Assessment(quality_indicators, meets_standards) ==
  [quality_score |->
     2 * Cardinality({k \in DOMAIN quality_indicators : quality_indicators[k]}),
   meets_financial_standards |-> meets_standards,
   quality_indicators |-> quality_indicators]

validate_financial_search_quality_timed(search_response) ==
  LET quality_indicators == QualityIndicators(search_response)
  IN Assessment(quality_indicators,
                /\ quality_indicators.has_specific_data
                /\ quality_indicators.has_timeframe
                /\ quality_indicators.appropriate_length
                /\ quality_indicators.no_disclaimers_only
                /\ Assessment(quality_indicators, FALSE).quality_score >= 6)

validate_financial_search_quality(search_response) ==
  LET quality_indicators == QualityIndicators(search_response)
  IN Assessment(quality_indicators,
                /\ quality_indicators.has_specific_data
                /\ quality_indicators.appropriate_length
                /\ quality_indicators.no_disclaimers_only
                /\ Assessment(quality_indicators, FALSE).quality_score >= 6)

\* What the grader's LLM call gives: an exception, a text that is not JSON, or a
\* JSON object whose validation_passed is true, false or absent.
GraderReplies ==
  {[kind |-> k, validation_passed |-> "absent", confidence_score |-> 0] :
     k \in {"exception", "unparsable"}}
    \cup {[kind |-> "json", validation_passed |-> p, confidence_score |-> c] :
            p \in {"true", "false", "absent"}, c \in {2, 9}}

Validation(available, passed, reasoning, confidence) ==
  [validation_available |-> available, validation_passed |-> passed,
   reasoning |-> reasoning, confidence_score |-> confidence]

NoValidation == Validation("absent", "absent", "", 0)

validate_rag_response_strict(configured, llm_reply) ==
  IF ~configured
  THEN Validation("false", "false", "Gemini validation not available", 5)
  ELSE IF llm_reply.kind = "exception"
  THEN Validation("false", "false", "Validation error", 5)
  ELSE IF llm_reply.kind = "unparsable"
  THEN Validation("true", "false", "Failed to parse validation response", 0)
  ELSE Validation("absent", llm_reply.validation_passed, "", llm_reply.confidence_score)

\* gemini_validation_service.py:56-147; confidence_score is kept in tenths.
validate_rag_response(configured, llm_reply) ==
  IF ~configured
  THEN Validation("false", "true", "Gemini validation not available", 5)
  ELSE IF llm_reply.kind = "exception"
  THEN Validation("false", "true", "Validation error", 5)
  ELSE IF llm_reply.kind = "unparsable"
  THEN Validation("true", "false", "Failed to parse validation response", 0)
  ELSE Validation("absent", llm_reply.validation_passed, "", llm_reply.confidence_score)

\* What the grounded search gives: an exception, or a text (stripped).
SearchReplies ==
  {[kind |-> "exception", text |-> NoneText]}
    \cup {[kind |-> "text", text |-> t] : t \in WebTexts \cup {EmptyText}}

Enhanced(present, available, search_response, quality_assessment) ==
  [present |-> present, search_available |-> available, response |-> search_response,
   quality_assessment |-> quality_assessment]

\* enhanced_response = None
NotEnhanced ==
  Enhanced(FALSE, FALSE, NoneText, validate_financial_search_quality(NoneText))

\* gemini_validation_service.py:149-237
search_with_gemini(configured, llm_reply) ==
  IF ~configured \/ llm_reply.kind = "exception"
  THEN Enhanced(TRUE, FALSE, NoneText, validate_financial_search_quality(NoneText))
  ELSE Enhanced(TRUE, TRUE, llm_reply.text, validate_financial_search_quality(llm_reply.text))

\* gemini_validation_service.py:261-266: final_source
final_source(enhanced_response) ==
  IF enhanced_response.present /\ enhanced_response.search_available
  THEN "gemini_search" ELSE "rag"

\* bool(enhanced_response.get('response'))
Truthy(text) == text # NoneText /\ text.len > 0

\* gemini_validation_service.py:334-361
get_final_response(original_rag_response, enhanced_response) ==
  IF /\ enhanced_response.present
     /\ enhanced_response.search_available
     /\ Truthy(enhanced_response.response)
  THEN IF enhanced_response.quality_assessment.meets_financial_standards
       THEN <<enhanced_response.response>>
       ELSE <<Concat(enhanced_response.response, warning)>>
  ELSE original_rag_response

\* The dict execute_rag_query returns, and the one of its except clause.
QueryResult(query, rag, validation, enhanced_response) ==
  [query |-> query, error |-> FALSE,
   results |-> get_final_response(rag, enhanced_response),
   original_rag_results |-> rag, validation_result |-> validation,
   enhanced_response |-> enhanced_response, source |-> final_source(enhanced_response)]

ErrorResult(query) ==
  [query |-> query, error |-> TRUE, results |-> <<>>, original_rag_results |-> <<>>,
   validation_result |-> NoValidation, enhanced_response |-> NotEnhanced,
   source |-> "absent"]

NoResult == ErrorResult("")

Call(p, query, configured, rag, validation, enhanced_response) ==
  [pc |-> p, query |-> query, configured |-> configured, rag |-> rag,
   validation |-> validation, enhanced_response |-> enhanced_response]

NoCall == Call("idle", "", FALSE, <<>>, NoValidation, NotEnhanced)

\* ------------------------------------------------------------ initial state
\* The row written by create(): status IN_PROGRESS, every other column its default.
NewRow ==
  [status |-> "IN_PROGRESS", cancel_requested |-> FALSE, total_iterations |-> 0,
   documents_analyzed |-> 0, rag_queries_executed |-> 0, final_completeness_score |-> 0,
   final_analysis |-> NoneAnalysis, iteration_history |-> <<>>, error_message |-> ""]

\* ------------------------------------------------------------ document rows
DocumentIds == 1..MaxDocuments

\* A filing no Document row exists for yet.
NoDocument == [status |-> "absent", content_size |-> 0]

\* The three dicts add_document returns: success, duplicate, failure.
AddReturn(success, duplicate) == [success |-> success, duplicate |-> duplicate]

AddResults == {AddReturn(TRUE, FALSE), AddReturn(FALSE, TRUE), AddReturn(FALSE, FALSE)}

\* bool(d) of a dict: it has a key.
NonEmpty(d) == DOMAIN d # {}

Thread(at, path, id, success) ==
  [pc |-> at, path |-> path, id |-> id, success |-> success]

NoThread == Thread("idle", "", 0, AddReturn(FALSE, FALSE))

\* documents/models.py:44-48 and 50-53
mark_as_stored(document) == [document EXCEPT !.status = "STORED"]

mark_as_error(document) == [document EXCEPT !.status = "ERROR"]

Init ==
  /\ db = NewRow
  /\ obj = NewRow
  /\ pc = "load"
  /\ document_summaries = 0
  /\ current_analysis = NoneAnalysis
  /\ iteration_history = <<>>
  /\ iteration = 0
  /\ rag_queries = <<>>
  /\ rag_results = <<>>
  /\ results = NoResults
  /\ cpc = "idle"
  /\ response = NoResponse
  /\ jobs = [i \in JobIds |-> NewRow]
  /\ dreq = NoDestroy
  /\ breq = NoBulk
  /\ reply = NoReply
  /\ registry_file = NoFile
  /\ rag_store = [d \in Docs |-> 0]
  /\ rag_texts = {}
  /\ search_cache = <<>>
  /\ knowledge = 0
  /\ sanswer = NoAnswer
  /\ gcall = NoCall
  /\ gresult = NoResult
  /\ gdone = 0
  /\ documents = [id \in DocumentIds |-> NoDocument]
  /\ dthread = NoThread
  /\ service = [w \in IngestWorkers |-> NoService]
  /\ outcome = NoOutcome
  /\ started = 0
  /\ accepted = [f \in Fingerprints |-> 0]
  /\ overlap = FALSE
  /\ cancelAt = [accepted |-> FALSE, pc |-> "", history |-> <<>>]
  /\ faults = {}

\* ------------------------------------------------- the controller's returns
should_cancel_stale == obj.cancel_requested

\* should_cancel: IterativeAnalysis.objects.filter(id=..., cancel_requested=True).exists()
should_cancel == db.cancel_requested

\* The dict built by the except clause of run_iterative_analysis from the locals
\* that exist when the exception is raised.
ExceptionResults ==
  LET base == [NoResults EXCEPT
                 !.keys = {"error", "query", "company_filter", "termination_reason",
                           "documents_analyzed"},
                 !.error = "exception",
                 !.termination_reason = "Analysis failed: exception",
                 !.documents_analyzed = document_summaries]
  IN IF current_analysis = NoneAnalysis THEN base
     ELSE [base EXCEPT
             !.keys = @ \cup {"final_analysis", "iteration_history", "total_iterations"},
             !.final_analysis = current_analysis,
             !.iteration_history = iteration_history,
             !.total_iterations = Len(iteration_history)]

\* The dict returned when cancellation is seen before the initial analysis.
CancelledBeforeStart ==
  [NoResults EXCEPT
     !.keys = {"error", "cancelled", "final_analysis", "iteration_history",
               "total_iterations", "documents_analyzed", "analysis_quality",
               "termination_reason"},
     !.error = "cancelled",
     !.cancelled = TRUE,
     !.final_analysis = EmptyAnalysis,
     !.documents_analyzed = document_summaries,
     !.termination_reason = "User cancelled before analysis started"]

\* final_results, with the cancelled mark of the last cancellation check.
FinalResults(cancel) ==
  [NoResults EXCEPT
     !.keys = {"query", "company_filter", "final_analysis", "total_iterations",
               "documents_analyzed", "iteration_history", "analysis_quality"}
              \cup (IF cancel THEN {"cancelled", "termination_reason"} ELSE {}),
     !.cancelled = cancel,
     !.final_analysis = current_analysis,
     !.total_iterations = CountEvaluations(iteration_history),
     !.documents_analyzed = document_summaries,
     !.iteration_history = iteration_history,
     !.aq_final_completeness_score = get_final_completeness_score(iteration_history),
     !.aq_rag_queries_executed = SumQueries(iteration_history),
     !.termination_reason = IF cancel THEN "User cancelled analysis" ELSE ""]

Return(r) ==
  /\ results' = r
  /\ pc' = "terminal"

\* ------------------------------------------------------- the worker's steps
\* views.py:72  analysis = IterativeAnalysis.objects.get(id=analysis_id)
Load ==
  /\ pc = "load"
  /\ obj' = db
  /\ pc' = "start"
  /\ UNCHANGED <<db, locals, results, outside, cancelAt, faults>>

\* run_iterative_analysis with no LLM client configured.
StartNoClient ==
  /\ pc = "start"
  /\ Return([NoResults EXCEPT !.keys = {"error"},
                              !.error = "OpenAI client not configured"])
  /\ faults' = faults \cup {"no_client"}
  /\ UNCHANGED <<db, obj, locals, outside, cancelAt>>

\* Step 1: gather the summaries; none is an error, otherwise the count is persisted.
GatherSummaries ==
  /\ pc = "start"
  /\ \E n \in DocCounts :
       /\ document_summaries' = n
       /\ IF n = 0
          THEN /\ Return([NoResults EXCEPT
                            !.keys = {"error", "query", "company_filter"},
                            !.error = "No documents available for analysis"])
               /\ faults' = faults \cup {"no_documents"}
               /\ db' = db
          ELSE /\ db' = update_progress(db, [documents_analyzed |-> n])
               /\ pc' = "check_draft"
               /\ UNCHANGED <<results, faults>>
  /\ UNCHANGED <<obj, current_analysis, iteration_history, iteration, rag_queries,
                 rag_results, outside, cancelAt>>

\* A cancellation check whose database query raises: the except clause of the
\* controller builds the partial results.
CheckRaises ==
  /\ pc \in {"check_draft", "check_eval", "rag_loop", "check_refine", "final"}
  /\ Return(ExceptionResults)
  /\ faults' = faults \cup {"exception"}
  /\ UNCHANGED <<db, obj, locals, outside, cancelAt>>

CheckBeforeDraft ==
  /\ pc = "check_draft"
  /\ IF should_cancel
     THEN Return(CancelledBeforeStart)
     ELSE pc' = "draft" /\ UNCHANGED results
  /\ UNCHANGED <<db, obj, locals, outside, cancelAt, faults>>

\* Step 2: DRAFT.  An LLM or parse failure returns the error dict as the result.
Draft ==
  /\ pc = "draft"
  /\ \E ok \in BOOLEAN :
       IF ok
       THEN LET h == <<[Record(0, "initial_analysis", 1) EXCEPT !.analysis = 0]>>
            IN /\ current_analysis' = 0
               /\ iteration_history' = h
               /\ db' = update_progress(db, [iteration_history |-> h, final_analysis |-> 0])
               /\ iteration' = 1
               /\ pc' = "check_eval"
               /\ UNCHANGED <<results, faults>>
       ELSE /\ Return([NoResults EXCEPT !.keys = {"error", "query"},
                                        !.error = "draft failed"])
            /\ faults' = faults \cup {"draft_error"}
            /\ UNCHANGED <<db, current_analysis, iteration_history, iteration>>
  /\ UNCHANGED <<obj, document_summaries, rag_queries, rag_results, outside, cancelAt>>

CheckBeforeEvaluate ==
  /\ pc = "check_eval"
  /\ pc' = IF should_cancel THEN "final" ELSE "evaluate"
  /\ UNCHANGED <<db, obj, locals, results, outside, cancelAt, faults>>

EvaluateFails_goes_on ==
  /\ pc = "evaluate"
  /\ pc' = "gen_queries"
  /\ faults' = faults \cup {"eval_error"}
  /\ UNCHANGED <<db, obj, locals, results, outside, cancelAt>>

\* EVALUATE fails: the loop is left without a record.
EvaluateFails ==
  /\ pc = "evaluate"
  /\ pc' = "final"
  /\ faults' = faults \cup {"eval_error"}
  /\ UNCHANGED <<db, obj, locals, results, outside, cancelAt>>

AfterEvaluation_strict(score, complete) ==
  IF complete THEN "final"
  ELSE IF ~IsNumber(score) THEN "raise"
  ELSE IF score > CompleteThreshold THEN "final"
  ELSE "gen_queries"

\* What follows a parsed evaluation: the loop ends, goes on to RETRIEVE, or the
\* comparison of a non-numeric score with 7 raises.
AfterEvaluation(score, complete) ==
  IF complete THEN "final"
  ELSE IF ~IsNumber(score) THEN "raise"
  ELSE IF score >= CompleteThreshold THEN "final"
  ELSE "gen_queries"

Evaluate ==
  /\ pc = "evaluate"
  /\ \E score \in EvalScores, complete \in BOOLEAN :
       LET h == Append(iteration_history,
                       [Record(iteration, "evaluation", Len(iteration_history) + 1)
                          EXCEPT !.completeness_score = score, !.is_complete = complete])
           next == AfterEvaluation(score, complete)
       IN /\ iteration_history' = h
          /\ db' = update_progress(db, [total_iterations |-> iteration,
                                        final_completeness_score |-> score,
                                        iteration_history |-> h])
          /\ faults' = faults \cup (IF IsNumber(score) THEN {} ELSE {"offschema_score"})
                              \cup (IF next = "raise" THEN {"exception"} ELSE {})
          /\ IF next = "raise"
             THEN Return([ExceptionResults EXCEPT !.iteration_history = h,
                                                  !.total_iterations = Len(h)])
             ELSE pc' = next /\ UNCHANGED results
  /\ UNCHANGED <<obj, document_summaries, current_analysis, iteration, rag_queries,
                 rag_results, outside, cancelAt>>

\* RETRIEVE, first half: the LLM lists the queries (none on a failure).
GenerateQueries ==
  /\ pc = "gen_queries"
  /\ \E n \in QueryCounts :
       /\ rag_queries' = [i \in 1..n |-> i]
       /\ rag_results' = <<>>
       /\ pc' = IF n = 0 THEN "final" ELSE "rag_loop"
       /\ faults' = faults \cup (IF n = 0 THEN {"no_queries"} ELSE {})
  /\ UNCHANGED <<db, obj, document_summaries, current_analysis, iteration_history,
                 iteration, results, outside, cancelAt>>

\* The rag_queries record appended after the batch, and its progress update.
RecordQueries(res) ==
  LET h == Append(iteration_history,
                  [Record(iteration, "rag_queries", Len(iteration_history) + 1)
                     EXCEPT !.queries = rag_queries, !.results = res])
  IN /\ iteration_history' = h
     /\ db' = update_progress(db, [rag_queries_executed |-> SumQueries(h),
                                   iteration_history |-> h])
     /\ pc' = "check_refine"

\* RETRIEVE, second half: one pass of the per-query loop.  The check comes first;
\* the record is appended when the batch ends or is broken off.
ExecuteQuery ==
  /\ pc = "rag_loop"
  /\ IF should_cancel
     THEN /\ RecordQueries(rag_results)
          /\ UNCHANGED rag_results
     ELSE LET res == Append(rag_results, rag_queries[Len(rag_results) + 1])
          IN /\ rag_results' = res
             /\ IF Len(res) = Len(rag_queries)
                THEN RecordQueries(res)
                ELSE UNCHANGED <<db, iteration_history, pc>>
  /\ UNCHANGED <<obj, document_summaries, current_analysis, iteration, rag_queries,
                 results, outside, cancelAt, faults>>

CheckBeforeRefine_unchecked ==
  /\ pc = "check_refine"
  /\ pc' = "refine"
  /\ UNCHANGED <<db, obj, locals, results, outside, cancelAt, faults>>

CheckBeforeRefine ==
  /\ pc = "check_refine"
  /\ pc' = IF should_cancel THEN "final" ELSE "refine"
  /\ UNCHANGED <<db, obj, locals, results, outside, cancelAt, faults>>

\* REFINE, and the step of the for loop over range(1, max_iterations + 1).
Refine_records_failure ==
  /\ pc = "refine"
  /\ \E ok \in BOOLEAN :
       LET h == Append(iteration_history,
                       [Record(iteration, "refined_analysis", Len(iteration_history) + 1)
                          EXCEPT !.analysis = IF ok THEN iteration ELSE EmptyAnalysis])
       IN /\ iteration_history' = h
          /\ IF ok
             THEN /\ current_analysis' = iteration
                  /\ db' = update_progress(db, [final_analysis |-> iteration,
                                                iteration_history |-> h])
                  /\ IF iteration < max_iterations
                     THEN iteration' = iteration + 1 /\ pc' = "check_eval"
                     ELSE iteration' = iteration /\ pc' = "final"
                  /\ UNCHANGED faults
             ELSE /\ pc' = "final"
                  /\ faults' = faults \cup {"refine_error"}
                  /\ UNCHANGED <<db, current_analysis, iteration>>
  /\ UNCHANGED <<obj, document_summaries, rag_queries, rag_results, results, outside,
                 cancelAt>>

Refine ==
  /\ pc = "refine"
  /\ \E ok \in BOOLEAN :
       IF ok
       THEN LET h == Append(iteration_history,
                            [Record(iteration, "refined_analysis",
                                    Len(iteration_history) + 1)
                               EXCEPT !.analysis = iteration])
            IN /\ current_analysis' = iteration
               /\ iteration_history' = h
               /\ db' = update_progress(db, [final_analysis |-> iteration,
                                             iteration_history |-> h])
               /\ IF iteration < max_iterations
                  THEN iteration' = iteration + 1 /\ pc' = "check_eval"
                  ELSE iteration' = iteration /\ pc' = "final"
               /\ UNCHANGED faults
       ELSE /\ pc' = "final"
            /\ faults' = faults \cup {"refine_error"}
            /\ UNCHANGED <<db, current_analysis, iteration_history, iteration>>
  /\ UNCHANGED <<obj, document_summaries, rag_queries, rag_results, results, outside,
                 cancelAt>>

FinalCheck_cancelled ==
  /\ pc = "final"
  /\ Return(FinalResults(TRUE))
  /\ UNCHANGED <<db, obj, locals, outside, cancelAt, faults>>

\* The final results and the last cancellation check.
FinalCheck ==
  /\ pc = "final"
  /\ Return(FinalResults(should_cancel))
  /\ UNCHANGED <<db, obj, locals, outside, cancelAt, faults>>

\* views.py:85-103: the terminal write, made from the instance loaded at the start.
\* save() writes every column of that instance; when it raises, the handler loads
\* the row again and marks it failed without partial results.
Marked ==
  IF results.cancelled \/ (results.error = "cancelled")
  THEN mark_cancelled(obj, results, "User cancelled analysis")
  ELSE IF "error" \in results.keys
  THEN mark_failed(obj, results.error, [results EXCEPT !.keys = @ \ {"error"}])
  ELSE mark_completed(obj, results)

TerminalWrite ==
  /\ pc = "terminal"
  /\ IF Storable(Marked)
     THEN obj' = Marked /\ db' = Marked
     ELSE LET fresh == mark_failed(db, "save failed", NoResults)
          IN obj' = fresh /\ db' = fresh
  /\ pc' = "done"
  /\ UNCHANGED <<locals, results, outside, cancelAt, faults>>

\* views.py:97-103: the terminal save raises for a reason of the database.  The
\* handler loads the row again and marks it failed; when that raises too, the
\* exception is swallowed (except: pass) and the thread ends, the row as it was.
TerminalWriteRaises ==
  /\ pc = "terminal"
  /\ \E handled \in BOOLEAN :
       IF handled
       THEN LET fresh == mark_failed(db, "save failed", NoResults)
            IN /\ obj' = fresh /\ db' = fresh
               /\ faults' = faults \cup {"save_raised"}
       ELSE /\ UNCHANGED <<db, obj>>
            /\ faults' = faults \cup {"write_lost"}
  /\ pc' = "done"
  /\ UNCHANGED <<locals, results, outside, cancelAt>>

Worker ==
  \/ Load \/ StartNoClient \/ GatherSummaries \/ CheckRaises \/ CheckBeforeDraft
  \/ Draft \/ CheckBeforeEvaluate \/ EvaluateFails \/ Evaluate \/ GenerateQueries
  \/ ExecuteQuery \/ CheckBeforeRefine \/ Refine \/ FinalCheck \/ TerminalWrite
  \/ TerminalWriteRaises

\* ------------------------------------------------------ the cancel endpoint
CancelRead_always ==
  /\ cpc = "idle"
  /\ cpc' = "write"
  /\ UNCHANGED <<db, obj, pc, locals, results, response, cancelAt, faults, table, elsewhere, ingestion>>

\* views.py:188-193: get_object(), then the answer for a job that is over.
CancelRead ==
  /\ cpc = "idle"
  /\ IF db.status \in Terminal
     THEN /\ cpc' = "idle"
          /\ response' = Reply("cancel", 200, db.status, "Analysis is no longer running")
     ELSE /\ cpc' = "write"
          /\ UNCHANGED response
  /\ UNCHANGED <<db, obj, pc, locals, results, cancelAt, faults, table, elsewhere, ingestion>>

\* views.py:195: mark_cancel_requested() saves the cancel_requested column alone.
CancelWrite ==
  /\ cpc = "write"
  /\ db' = mark_cancel_requested(db)
  /\ cpc' = "idle"
  \* the body's status is that of the instance CancelRead got: not a terminal one
  /\ response' = Reply("cancel", 200, "IN_PROGRESS", "Cancellation requested")
  /\ cancelAt' = IF cancelAt.accepted THEN cancelAt
                 ELSE [accepted |-> TRUE, pc |-> pc, history |-> db.iteration_history]
  /\ UNCHANGED <<obj, pc, locals, results, faults, table, elsewhere, ingestion>>

Cancel == CancelRead \/ CancelWrite

\* ----------------------------------------------------- the results endpoint
results_view_terminal(row) ==
  IF row.status \in Terminal
  THEN Reply("results", 200, row.status, "")
  ELSE Reply("results", 400, row.status,
             "Analysis not completed and no partial results available")

\* views.py:158-175: the answer computed from the instance get_object() returned.
results_view(row) ==
  IF \/ row.status = "COMPLETED"
     \/ row.status \in {"CANCELLED", "FAILED"} /\ has_partial_results(row)
  THEN Reply("results", 200, row.status, "")
  ELSE Reply("results", 400, row.status,
             "Analysis not completed and no partial results available")

Results ==
  /\ response' = results_view(db)
  /\ UNCHANGED <<db, obj, pc, locals, results, cpc, cancelAt, faults, table, elsewhere, ingestion>>

Next == Worker \/ Cancel \/ Results

Spec == Init /\ [][Next]_vars

\* The worker thread keeps running until its terminal write.
FairSpec == Spec /\ WF_vars(Worker)

\* ============================================================ the job table
\* The jobs created by create(), each with its worker thread, and the two delete
\* endpoints.  Of a worker only its writes to the row are kept: the progress writes,
\* which leave status alone, and the one terminal write, made while the row is
\* IN_PROGRESS.

Present(t, ids) == ids \cap DOMAIN t

\* analyses.filter(status='IN_PROGRESS') over the listed ids
Running(t, ids) == {i \in Present(t, ids) : t[i].status = "IN_PROGRESS"}

\* QuerySet.delete() / Model.delete(): the rows that exist among ids are removed.
Delete(t, ids) == [i \in DOMAIN t \ ids |-> t[i]]

\* update_analysis_progress of the worker of job i.
WorkerProgress(i) ==
  /\ i \in DOMAIN jobs
  /\ jobs[i].status = "IN_PROGRESS"
  /\ jobs' = [jobs EXCEPT ![i] = update_progress(@, [documents_analyzed |-> MaxDocs])]
  /\ UNCHANGED <<job, ingestion, elsewhere, dreq, breq, reply>>

\* views.py:85-95: the terminal write of the worker of job i.
WorkerTerminal(i) ==
  /\ i \in DOMAIN jobs
  /\ jobs[i].status = "IN_PROGRESS"
  /\ \E row \in {mark_completed(jobs[i], NoResults),
                  mark_failed(jobs[i], "error", NoResults),
                  mark_cancelled(jobs[i], NoResults, "User cancelled analysis")} :
       jobs' = [jobs EXCEPT ![i] = row]
  /\ UNCHANGED <<job, ingestion, elsewhere, dreq, breq, reply>>

DestroyRead_any(i) ==
  /\ dreq.pc = "idle"
  /\ i \in DOMAIN jobs
  /\ dreq' = [pc |-> "delete", id |-> i]
  /\ UNCHANGED <<job, ingestion, elsewhere, jobs, breq, reply>>

\* views.py:209-216: get_object() (its Http404 is caught by the handler: 500) and the
\* refusal for a running job.
DestroyRead(i) ==
  /\ dreq.pc = "idle"
  /\ IF i \notin DOMAIN jobs
     THEN /\ reply' = Answer("destroy", i, {}, 500, "Not found", {}, 0)
          /\ UNCHANGED dreq
     ELSE IF jobs[i].status = "IN_PROGRESS"
     THEN /\ reply' = Answer("destroy", i, {}, 400,
                             "Cannot delete a running analysis", {}, 0)
          /\ UNCHANGED dreq
     ELSE /\ dreq' = [pc |-> "delete", id |-> i]
          /\ UNCHANGED reply
  /\ UNCHANGED <<job, ingestion, elsewhere, jobs, breq>>

\* views.py:222-229: analysis.delete() and the 204.
DestroyDelete ==
  /\ dreq.pc = "delete"
  /\ jobs' = Delete(jobs, {dreq.id})
  /\ reply' = Answer("destroy", dreq.id, {}, 204, "", {}, 0)
  /\ dreq' = NoDestroy
  /\ UNCHANGED <<job, ingestion, elsewhere, breq>>

\* views.py:243-249: the id list of the request; an empty one is refused.
BulkStart(ids) ==
  /\ breq.pc = "idle"
  /\ IF ids = {}
     THEN /\ reply' = Answer("bulk_delete", 0, ids, 400, "No analysis IDs provided", {}, 0)
          /\ UNCHANGED breq
     ELSE /\ breq' = [pc |-> "exists", ids |-> ids, deleted_count |-> 0]
          /\ UNCHANGED reply
  /\ UNCHANGED <<job, ingestion, elsewhere, jobs, dreq>>

BulkExists_skip ==
  /\ breq.pc = "exists"
  /\ breq' = [breq EXCEPT !.pc = "count"]
  /\ UNCHANGED <<job, ingestion, elsewhere, jobs, dreq, reply>>

\* views.py:255-256: running_analyses.exists()
BulkExists ==
  /\ breq.pc = "exists"
  /\ breq' = [breq EXCEPT !.pc = IF Running(jobs, breq.ids) # {} THEN "list" ELSE "count"]
  /\ UNCHANGED <<job, ingestion, elsewhere, jobs, dreq, reply>>

\* views.py:257-260: the refusal; the id list is a second query of running_analyses.
BulkRefuse ==
  /\ breq.pc = "list"
  /\ reply' = Answer("bulk_delete", 0, breq.ids, 400, "Cannot delete running analyses",
                     Running(jobs, breq.ids), 0)
  /\ breq' = NoBulk
  /\ UNCHANGED <<job, ingestion, elsewhere, jobs, dreq>>

\* views.py:263: deleted_count = analyses.count()
BulkCount ==
  /\ breq.pc = "count"
  /\ breq' = [breq EXCEPT !.pc = "delete",
                          !.deleted_count = Cardinality(Present(jobs, breq.ids))]
  /\ UNCHANGED <<job, ingestion, elsewhere, jobs, dreq, reply>>

\* views.py:264-271: analyses.delete() and the 200.
BulkDelete ==
  /\ breq.pc = "delete"
  /\ jobs' = Delete(jobs, breq.ids)
  /\ reply' = Answer("bulk_delete", 0, breq.ids, 200, "", {}, breq.deleted_count)
  /\ breq' = NoBulk
  /\ UNCHANGED <<job, ingestion, elsewhere, dreq>>

TableWorker == \E i \in JobIds : WorkerProgress(i) \/ WorkerTerminal(i)

Destroy == (\E i \in JobIds : DestroyRead(i)) \/ DestroyDelete

BulkDeleteRequest ==
  \/ \E ids \in SUBSET JobIds : BulkStart(ids)
  \/ BulkExists \/ BulkRefuse \/ BulkCount \/ BulkDelete

TableNext == TableWorker \/ Destroy \/ BulkDeleteRequest

TableSpec == Init /\ [][TableNext]_vars

\* =============================================================== ingestion
\* Each _process_document_sync thread builds its own CogneeService, whose __init__
\* loads the registry from the file, and calls add_document on it.  The registry in
\* memory belongs to the service; the file and the RAG store are shared.

Similar_exact(registry, metadata) ==
  {f \in DOMAIN registry :
     /\ registry[f].metadata.company_name = metadata.company_name
     /\ registry[f].metadata.form_type = metadata.form_type
     /\ registry[f].metadata.filing_date = metadata.filing_date}

\* The first registry entry of the same company, form type and filing date, if any.
Similar(registry, metadata) ==
  {f \in DOMAIN registry :
     /\ Lower(registry[f].metadata.company_name) = Lower(metadata.company_name)
     /\ Lower(registry[f].metadata.form_type) = Lower(metadata.form_type)
     /\ registry[f].metadata.filing_date = metadata.filing_date}

Result(w, d, success, duplicate, reason, fingerprint) ==
  [worker |-> w, doc |-> d, success |-> success, duplicate |-> duplicate,
   reason |-> reason, fingerprint |-> fingerprint]

\* self._document_registry[fingerprint] = doc_info
Registered(registry, fingerprint, d, summary) ==
  [f \in DOMAIN registry \cup {fingerprint} |->
     IF f = fingerprint
     THEN [fingerprint |-> fingerprint, metadata |-> d.metadata, summary |-> summary,
           full_content |-> d.content, content_hash |-> sha256(d.content)]
     ELSE registry[f]]

\* A service between two calls of add_document.
Ready(registry) ==
  [pc |-> "ready", document_registry |-> registry, doc |-> NoDoc,
   summary |-> NoSummary, rag_success |-> "pending"]

\* cognee_service.py:104-132: CogneeService() and _load_document_registry.
NewService(w) ==
  /\ service[w].pc = "none"
  /\ started < MaxIngest
  /\ service' = [service EXCEPT ![w] = Ready(load_document_registry(registry_file))]
  /\ overlap' = (overlap \/ \E v \in IngestWorkers \ {w} : service[v].pc # "none")
  /\ UNCHANGED <<job, table, elsewhere, registry_file, rag_store, rag_texts, outcome, started,
                 accepted>>

Check_off(w, d) ==
  /\ service[w].pc = "ready"
  /\ started < MaxIngest
  /\ started' = started + 1
  /\ service' = [service EXCEPT ![w].pc = "store", ![w].doc = d]
  /\ UNCHANGED <<job, table, elsewhere, registry_file, rag_store, rag_texts, outcome, accepted,
                 overlap>>

\* cognee_service.py:749-783: the fingerprint and the two duplicate checks of
\* add_document, made on the registry of the service.
Check(w, d) ==
  /\ service[w].pc = "ready"
  /\ started < MaxIngest
  /\ started' = started + 1
  /\ LET registry == service[w].document_registry
         fingerprint == create_document_fingerprint(d.content, d.metadata)
     IN IF fingerprint \in DOMAIN registry
        THEN /\ outcome' = Result(w, d, FALSE, TRUE,
                                  "Document already exists in registry", fingerprint)
             /\ UNCHANGED service
        ELSE IF Similar(registry, d.metadata) # {}
        THEN /\ outcome' = Result(w, d, FALSE, TRUE, "Similar document exists",
                                  CHOOSE f \in Similar(registry, d.metadata) : TRUE)
             /\ UNCHANGED service
        ELSE /\ service' = [service EXCEPT ![w].pc = "store", ![w].doc = d]
             /\ UNCHANGED outcome
  /\ UNCHANGED <<job, table, elsewhere, registry_file, rag_store, rag_texts, accepted, overlap>>

\* interactive_cognee_edgar.py:215-244: the call just answered duplicate is made
\* again, on the same service, with the content unchanged and the accession number
\* made unique.
ForceStore(w) ==
  /\ outcome.worker = w
  /\ outcome.duplicate
  /\ outcome.doc \in Originals
  /\ Check(w, Forced(outcome.doc))

\* cognee_service.py:576-640 (_generate_document_summary), the first of the two
\* tasks of _add_document_async: the summary of the LLM, or the basic summary when
\* there is no client or the call or its parsing fails.
GenerateSummary(w) ==
  /\ service[w].pc = "store"
  /\ service[w].summary = NoSummary
  /\ \E summary \in {ai_summary(service[w].doc.content, service[w].doc.metadata),
                     generate_basic_summary(service[w].doc.content,
                                            service[w].doc.metadata)} :
       service' = [service EXCEPT ![w].summary = summary]
  /\ UNCHANGED <<job, table, elsewhere, registry_file, rag_store, rag_texts, outcome, started,
                 accepted, overlap>>

\* cognee_service.py:682-698, 729-737 (_store_document_in_rag), the second task:
\* cognee.add of the document text, which may fail.
StoreInRag(w) ==
  /\ service[w].pc = "store"
  /\ service[w].rag_success = "pending"
  /\ \E added \in BOOLEAN :
       LET d == service[w].doc
       IN IF added
          THEN /\ rag_store' = [rag_store EXCEPT ![d] = @ + 1]
               /\ rag_texts' = rag_texts \cup {document_text(d.content, d.metadata)}
               /\ service' = [service EXCEPT ![w].rag_success = "yes"]
          ELSE /\ service' = [service EXCEPT ![w].rag_success = "no"]
               /\ UNCHANGED <<rag_store, rag_texts>>
  /\ UNCHANGED <<job, table, elsewhere, registry_file, outcome, started, accepted, overlap>>

\* cognee_service.py:700-727, 786, 816-819: both tasks are done; cognee.cognify runs
\* when the text was added, and may fail; the text stays added when it does.
Cognify(w) ==
  /\ service[w].pc = "store"
  /\ service[w].summary # NoSummary
  /\ service[w].rag_success # "pending"
  /\ \E cognified \in BOOLEAN :
       IF service[w].rag_success = "yes" /\ cognified
       THEN /\ service' = [service EXCEPT ![w].pc = "register"]
            /\ UNCHANGED outcome
       ELSE /\ service' = [service EXCEPT ![w] = Ready(service[w].document_registry)]
            /\ outcome' = Result(w, service[w].doc, FALSE, FALSE,
                                 "Failed to add document to Cognee RAG", <<>>)
  /\ UNCHANGED <<job, table, elsewhere, registry_file, rag_store, rag_texts, started, accepted,
                 overlap>>

\* cognee_service.py:788-815: the entry is put in the registry of the service and the
\* whole registry is written to the file.
Register(w) ==
  /\ service[w].pc = "register"
  /\ LET d == service[w].doc
         fingerprint == create_document_fingerprint(d.content, d.metadata)
         registry == Registered(service[w].document_registry, fingerprint, d,
                                service[w].summary)
     IN /\ service' = [service EXCEPT ![w] = Ready(registry)]
        /\ registry_file' = save_document_registry(registry)
        /\ outcome' = Result(w, d, TRUE, FALSE, "", fingerprint)
        /\ accepted' = [accepted EXCEPT ![fingerprint] = @ + 1]
  /\ UNCHANGED <<job, table, elsewhere, rag_store, rag_texts, started, overlap>>

\* The thread ends and its service is dropped.
Release(w) ==
  /\ service[w].pc = "ready"
  /\ service' = [service EXCEPT ![w] = NoService]
  /\ UNCHANGED <<job, table, elsewhere, registry_file, rag_store, rag_texts, outcome, started,
                 accepted, overlap>>

add_document(w) ==
  \/ \E d \in Originals : Check(w, d)
  \/ ForceStore(w)
  \/ GenerateSummary(w)
  \/ StoreInRag(w)
  \/ Cognify(w)
  \/ Register(w)

IngestNext == \E w \in IngestWorkers : NewService(w) \/ add_document(w) \/ Release(w)

IngestSpec == Init /\ [][IngestNext]_vars

\* ------------------------------------------------------------ search cache
\* A document is ingested and cognified into the RAG store.
Cognified ==
  /\ knowledge < MaxStored
  /\ knowledge' = knowledge + 1
  /\ UNCHANGED <<job, table, ingestion, storing, grading, search_cache, sanswer>>

\* cognee_service.py:870-900: the cached results when the key is in the cache, else
\* the results of the store (none when the search raises), which are cached.
search_context(query, search_type) ==
  LET cache_key == create_cache_key(query, search_type)
  IN /\ IF cache_key \in DOMAIN search_cache
        THEN /\ sanswer' = Answer_("search", cache_key, search_cache[cache_key],
                                   FALSE, TRUE)
             /\ UNCHANGED search_cache
        ELSE \E raised \in BOOLEAN :
               LET search_results ==
                     IF raised THEN <<>>
                     ELSE cognee_search(search_type_map(search_type), query, knowledge)
               IN /\ search_cache' = Cached(search_cache, cache_key, search_results)
                  /\ sanswer' = Answer_("search", cache_key, search_results, TRUE, TRUE)
     /\ UNCHANGED <<job, table, ingestion, storing, grading, knowledge>>

\* cognee_service.py:1053-1090: cognee.prune.prune_data(), the files of the data root
\* and the system databases are removed and the registry is cleared; False when
\* that raises.
prune_data ==
  /\ \E pruned \in BOOLEAN :
       IF pruned
       THEN /\ knowledge' = 0
            /\ sanswer' = Answer_("prune", <<>>, <<>>, FALSE, TRUE)
       ELSE /\ sanswer' = Answer_("prune", <<>>, <<>>, FALSE, FALSE)
            /\ UNCHANGED knowledge
  /\ UNCHANGED <<job, table, ingestion, storing, grading, search_cache>>

\* cognee_service.py:1092-1129: the data and system directories are removed and
\* made again, then the cache and the registry are cleared; False when a step raises,
\* and the steps after it are not made.
complete_reset ==
  /\ \E how \in {"ok", "rmtree_raises", "makedirs_raises"} :
       /\ knowledge' = IF how = "rmtree_raises" THEN knowledge ELSE 0
       /\ search_cache' = IF how = "ok" THEN <<>> ELSE search_cache
       /\ sanswer' = Answer_("reset", <<>>, <<>>, FALSE, how = "ok")
  /\ UNCHANGED <<job, table, ingestion, storing, grading>>

SearchNext ==
  \/ Cognified
  \/ \E query \in SearchQueries, search_type \in SearchTypes :
       search_context(query, search_type)
  \/ prune_data
  \/ complete_reset

SearchSpec == Init /\ [][SearchNext]_vars

\* ------------------------------------------------------------ the grader
\* iterative_analysis_service.py:58-66, 100-107: execute_rag_query is called for a
\* query; search_context gives the RAG strings; an exception raised before the
\* grader is called gives the error dict.
BeginQuery(question) ==
  /\ gcall.pc = "idle"
  /\ gdone < MaxCalls
  /\ \E raised \in BOOLEAN, configured \in BOOLEAN, rag \in RagResponses :
       IF raised
       THEN /\ gresult' = ErrorResult(question)
            /\ gdone' = gdone + 1
            /\ UNCHANGED gcall
       ELSE /\ gcall' = Call("validate", question, configured, rag, NoValidation,
                             NotEnhanced)
            /\ gresult' = NoResult
            /\ UNCHANGED gdone
  /\ UNCHANGED <<job, table, ingestion, storing, searching>>

\* gemini_validation_service.py:239-254: step 1 of validate_and_enhance_rag_response,
\* and the test validation_result.get('validation_passed', True) == False.
Validate ==
  /\ gcall.pc = "validate"
  /\ \E llm_reply \in GraderReplies :
       LET validation == validate_rag_response(gcall.configured, llm_reply)
       IN gcall' = [gcall EXCEPT
                      !.validation = validation,
                      !.pc = IF validation.validation_passed = "false"
                             THEN "search" ELSE "final"]
  /\ UNCHANGED <<job, table, ingestion, storing, searching, gresult, gdone>>

\* gemini_validation_service.py:255-257: step 2, the grounded web search.
SearchWithGemini ==
  /\ gcall.pc = "search"
  /\ \E llm_reply \in SearchReplies :
       gcall' = [gcall EXCEPT
                   !.enhanced_response = search_with_gemini(gcall.configured, llm_reply),
                   !.pc = "final"]
  /\ UNCHANGED <<job, table, ingestion, storing, searching, gresult, gdone>>

\* gemini_validation_service.py:259-267, iterative_analysis_service.py:82-98: the
\* final response is chosen and the result of the query is returned.
Finish ==
  /\ gcall.pc = "final"
  /\ gresult' = QueryResult(gcall.query, gcall.rag, gcall.validation,
                            gcall.enhanced_response)
  /\ gdone' = gdone + 1
  /\ gcall' = NoCall
  /\ UNCHANGED <<job, table, ingestion, storing, searching>>

execute_rag_query ==
  \/ \E question \in SearchQueries : BeginQuery(question)
  \/ Validate
  \/ SearchWithGemini
  \/ Finish

GraderNext == execute_rag_query

GraderSpec == Init /\ [][GraderNext]_vars

\* ========================================================== the Document rows
\* documents/views.py: the three threads that fetch the content of a filing, hand it
\* to add_document and write the status of its Document row.

\* views.py:69-102: search_and_store creates the row of a filing it has no row for
\* and starts _process_document_sync on it.
search_and_store(id) ==
  /\ dthread.pc = "idle"
  /\ documents[id].status = "absent"
  /\ documents' = [documents EXCEPT ![id].status = "PENDING"]
  /\ dthread' = Thread("begin", "search_and_store", id, NoThread.success)
  /\ UNCHANGED <<job, table, ingestion, searching, grading>>

\* views.py:181-204: process_to_rag starts _process_document_for_rag on a row that
\* is PENDING or ERROR.
process_to_rag(id) ==
  /\ dthread.pc = "idle"
  /\ documents[id].status \in {"PENDING", "ERROR"}
  /\ dthread' = Thread("begin", "process_to_rag", id, NoThread.success)
  /\ UNCHANGED <<job, table, ingestion, searching, grading, documents>>

\* views.py:226-228 and 389-391: document.status = 'PROCESSING'; document.save()
BeginProcessing ==
  /\ dthread.pc = "begin"
  /\ documents' = [documents EXCEPT ![dthread.id].status = "PROCESSING"]
  /\ dthread' = [dthread EXCEPT !.pc = "fetch"]
  /\ UNCHANGED <<job, table, ingestion, searching, grading>>

\* views.py:569-591: _process_query_sync gets or creates the row of a filing and
\* processes it when it was created or is not STORED.
process_query(id) ==
  /\ dthread.pc = "idle"
  /\ documents[id].status # "STORED"
  /\ documents' = [documents EXCEPT ![id].status = "PROCESSING"]
  /\ dthread' = Thread("fetch", "query", id, NoThread.success)
  /\ UNCHANGED <<job, table, ingestion, searching, grading>>

\* views.py:235-238, 396-399, 593-596: get_filing_content; without content the row
\* is marked ERROR.
FetchContent ==
  /\ dthread.pc = "fetch"
  /\ \E content_data \in BOOLEAN :
       IF content_data
       THEN /\ dthread' = [dthread EXCEPT !.pc = "add"]
            /\ UNCHANGED documents
       ELSE /\ documents' = [documents EXCEPT ![dthread.id] = mark_as_error(@)]
            /\ dthread' = NoThread
  /\ UNCHANGED <<job, table, ingestion, searching, grading>>

\* views.py:254-257, 411-414, 609-612: success = cognee_service.add_document(...)
AddDocument ==
  /\ dthread.pc = "add"
  /\ \E success \in AddResults :
       dthread' = [dthread EXCEPT !.pc = "mark", !.success = success]
  /\ UNCHANGED <<job, table, ingestion, searching, grading, documents>>

\* views.py:259-265 and 416-422 (if success.get('success')), 614-619 (if success).
MarkDocument ==
  /\ dthread.pc = "mark"
  /\ LET success == dthread.success
         stored == IF dthread.path = "query" THEN NonEmpty(success)
                   ELSE success.success
     IN documents' =
          [documents EXCEPT ![dthread.id] =
             IF stored THEN [mark_as_stored(@) EXCEPT !.content_size = 1]
             ELSE mark_as_error(@)]
  /\ dthread' = NoThread
  /\ UNCHANGED <<job, table, ingestion, searching, grading>>

\* views.py:281-320: sync_rag_status puts a STORED row the search finds nothing for,
\* or whose search raises, back to PENDING.
sync_rag_status(id) ==
  /\ documents[id].status = "STORED"
  /\ documents' = [documents EXCEPT ![id].status = "PENDING"]
  /\ UNCHANGED <<job, table, ingestion, searching, grading, dthread>>

DocumentNext ==
  \/ \E id \in DocumentIds : search_and_store(id) \/ process_to_rag(id) \/ process_query(id)
  \/ \E id \in DocumentIds : sync_rag_status(id)
  \/ BeginProcessing
  \/ FetchContent
  \/ AddDocument
  \/ MarkDocument

DocumentSpec == Init /\ [][DocumentNext]_vars

\* ===================================================================== claims
IsPrefix(a, b) == Len(a) <= Len(b) /\ SubSeq(b, 1, Len(a)) = a

LastEvaluation(h) == h[MaxOf(Evaluations(h))]

\* The cancel request was accepted while the worker was still running.
CancelledDuringRun == cancelAt.accepted /\ cancelAt.pc # "done"

UserCancelled == {"User cancelled analysis", "User cancelled before analysis started"}

\* C1: once the persisted status is COMPLETED, FAILED or CANCELLED no step of the
\* worker or of the cancel endpoint changes it, and every change of status goes from
\* IN_PROGRESS to one of those three.
C1_TerminalIsFinal ==
  [][/\ db.status \in Terminal => db'.status = db.status
     /\ db'.status # db.status => db.status = "IN_PROGRESS" /\ db'.status \in Terminal]_vars

\* A job that is over on which the cancel endpoint then wrote its flag.
C1_Witness ==
  db.status = "COMPLETED" /\ cancelAt.accepted /\ cancelAt.pc = "done"

\* C2: in every persisted state total_iterations is the number of evaluation records
\* of the persisted iteration_history.
C2_TotalIterationsCountsEvaluations ==
  db.total_iterations = CountEvaluations(db.iteration_history)

\* C3: in every persisted state rag_queries_executed is the sum of the lengths of the
\* queries lists of the rag_queries records of the persisted iteration_history.
C3_RagQueriesExecutedIsSum ==
  db.rag_queries_executed = SumQueries(db.iteration_history)

\* C4: in every persisted state final_completeness_score is the completeness_score of
\* the last evaluation record of the persisted iteration_history, 0 when there is none
\* (stated for histories whose evaluation records all carry a numeric score).
C4_FinalScoreIsLastEvaluation ==
  (\A i \in Evaluations(db.iteration_history) :
      IsNumber(db.iteration_history[i].completeness_score)) =>
    db.final_completeness_score =
      IF Evaluations(db.iteration_history) = {} THEN 0
      ELSE LastEvaluation(db.iteration_history).completeness_score

\* A finished run without any failure or cancellation whose evaluations all returned
\* a numeric score below 7 and is_analysis_complete = false.
C5_CapRun ==
  /\ pc = "done"
  /\ faults = {}
  /\ ~CancelledDuringRun
  /\ \A i \in Evaluations(iteration_history) :
       /\ IsNumber(iteration_history[i].completeness_score)
       /\ iteration_history[i].completeness_score < 7
       /\ ~iteration_history[i].is_complete

\* C5: such a run ends COMPLETED after exactly 10 evaluations, with total_iterations
\* 10 and the last score as final_completeness_score; and no history, local or
\* persisted, ever holds more than 10 evaluation records.
C5_CapReached ==
  /\ CountEvaluations(iteration_history) <= 10
  /\ CountEvaluations(db.iteration_history) <= 10
  /\ C5_CapRun =>
       /\ db.status = "COMPLETED"
       /\ CountEvaluations(db.iteration_history) = 10
       /\ db.total_iterations = 10
       /\ db.final_completeness_score =
            LastEvaluation(db.iteration_history).completeness_score

C5_Witness == C5_CapRun /\ Len(db.iteration_history) = 31

\* An evaluation record that ends the loop.
Stopping(r) ==
  /\ r.type = "evaluation"
  /\ r.is_complete \/ (IsNumber(r.completeness_score) /\ r.completeness_score >= 7)

\* A finished run without failure or cancellation whose last evaluation, the k-th,
\* carries a numeric score and ends the loop.
C6_StoppedRun ==
  /\ pc = "done"
  /\ faults = {}
  /\ ~CancelledDuringRun
  /\ Evaluations(iteration_history) # {}
  /\ Stopping(LastEvaluation(iteration_history))

\* C6: an evaluation that is complete or scores 7 or more is the last record of the
\* history (no rag_queries or refined_analysis record follows it); and a run stopped
\* by its k-th evaluation, without failure or cancellation, ends COMPLETED with
\* total_iterations = k and 1 + k + 2(k-1) records: for k = 1 the initial analysis and
\* the evaluation with no RAG query, for k = 2 the queries of the one batch.
C6_StopsAtFirstComplete ==
  /\ \A i \in DOMAIN iteration_history :
       Stopping(iteration_history[i]) => i = Len(iteration_history)
  /\ \A i \in DOMAIN db.iteration_history :
       Stopping(db.iteration_history[i]) => i = Len(db.iteration_history)
  /\ C6_StoppedRun =>
       LET h == db.iteration_history
           k == CountEvaluations(h)
       IN /\ db.status = "COMPLETED"
          /\ h = iteration_history
          /\ LastEvaluation(h).iteration = k
          /\ db.total_iterations = k
          /\ Len(h) = 1 + k + 2 * (k - 1)
          /\ k = 1 => /\ db.rag_queries_executed = 0
                      /\ h[1].type = "initial_analysis" /\ h[2].type = "evaluation"
          /\ k = 2 => db.rag_queries_executed = Len(h[3].queries)

\* The second evaluation scores exactly 7 after one batch of MaxQueries queries.
C6_Witness ==
  /\ C6_StoppedRun
  /\ CountEvaluations(db.iteration_history) = 2
  /\ LastEvaluation(db.iteration_history).completeness_score = 7
  /\ ~LastEvaluation(db.iteration_history).is_complete
  /\ db.rag_queries_executed = MaxQueries

\* The cancel request was accepted after the first evaluation (below 7, not complete)
\* was persisted and before the worker passed the check that precedes REFINE.
C7_CancelAfterFirstEvaluation ==
  /\ cancelAt.accepted
  /\ cancelAt.pc \in {"gen_queries", "rag_loop", "check_refine"}
  /\ CountEvaluations(cancelAt.history) = 1

\* The database refused the worker's terminal write (views.py:97-103).
WriteFaults == {"save_raised", "write_lost"}

ErrorReturns == {"no_client", "no_documents", "draft_error", "exception", "offschema_score"}

\* The cancel request was accepted before the worker made its last cancellation check.
C8_CancelBeforeLastCheck == cancelAt.accepted /\ cancelAt.pc \notin {"terminal", "done"}

\* C8 as stated: a job whose cancel request was accepted while it was IN_PROGRESS
\* becomes CANCELLED and never COMPLETED, whatever the interleaving of the request
\* with the worker's last cancellation check and its terminal write.
\* (Stated for runs without any phase failure.)
C8_CancelNeverCompletes ==
  (CancelledDuringRun /\ faults = {}) => db.status # "COMPLETED"

\* C8 amended: a cancel request accepted before the worker's last cancellation check
\* keeps the job from becoming COMPLETED; under weak fairness of the worker the job
\* eventually is CANCELLED, or FAILED when the controller returned an error or the
\* terminal write raised; it stays IN_PROGRESS only when the handler's write of
\* FAILED raised as well.
C8_CancelBeforeLastCheckCancels ==
  /\ [](C8_CancelBeforeLastCheck =>
          /\ db.status # "COMPLETED"
          /\ db.status = "FAILED" => faults \cap (ErrorReturns \cup {"save_raised"}) # {})
  /\ (C8_CancelBeforeLastCheck ~>
        (db.status \in {"CANCELLED", "FAILED"} \/ "write_lost" \in faults))

\* The request is accepted while a batch of RAG queries runs; the job ends CANCELLED.
C8_Witness ==
  /\ C8_CancelBeforeLastCheck
  /\ cancelAt.pc = "rag_loop"
  /\ db.status = "CANCELLED"

\* C9: when DRAFT, EVALUATE or REFINE fails (and no cancellation was requested) the
\* job ends FAILED with the final_analysis and iteration_history produced before the
\* failure.
C9_PhaseFailureFails ==
  (/\ pc = "done"
   /\ ~cancelAt.accepted
   /\ faults # {}
   /\ faults \subseteq {"draft_error", "eval_error", "refine_error"}) =>
     /\ db.status = "FAILED"
     /\ db.iteration_history = iteration_history
     /\ db.final_analysis = current_analysis

\* C10: total_iterations, rag_queries_executed and documents_analyzed of the
\* persisted row never decrease, the terminal write included.
C10_MonotonicProgress ==
  [][/\ db'.total_iterations >= db.total_iterations
     /\ db'.rag_queries_executed >= db.rag_queries_executed
     /\ db'.documents_analyzed >= db.documents_analyzed]_vars

\* The positions at which the next phase of the loop is about to start or is running.
PhaseStarts == {"check_eval", "evaluate", "gen_queries", "rag_loop", "check_refine",
                "refine"}

LoopEnders == {"eval_error", "no_queries"}

\* C12: the step on which EVALUATE returns an error appends no evaluation record, the
\* step on which RETRIEVE yields no query appends no rag_queries record, and from then
\* on the controller holds the same analysis and history and is past the loop (no
\* RETRIEVE or REFINE runs); what it returns carries that analysis and that history.
C12_FailedPhaseEndsLoop ==
  /\ [][faults' \cap LoopEnders # {} =>
          /\ iteration_history' = iteration_history
          /\ current_analysis' = current_analysis
          /\ pc' \in {"final", "terminal", "done"}]_vars
  /\ []((faults \cap LoopEnders # {} /\ pc \in {"terminal", "done"}) =>
          /\ {"final_analysis", "iteration_history"} \subseteq results.keys
          /\ results.final_analysis = current_analysis
          /\ results.iteration_history = iteration_history)

\* The second EVALUATE fails after one full iteration; the run is over.
C12_Witness ==
  /\ pc = "done"
  /\ "eval_error" \in faults
  /\ Len(iteration_history) = 4
  /\ results.iteration_history = iteration_history

C14_CancelIdempotent ==
  /\ [][/\ (cpc = "idle" /\ cpc' = "write") => (db.status \notin Terminal /\ db' = db)
        /\ (cpc = "write" /\ cpc' = "idle") =>
              /\ db' = [db EXCEPT !.cancel_requested = TRUE]
              /\ db.cancel_requested => db' = db
        /\ (cpc = "idle" /\ cpc' = "idle" /\ response' # response
               /\ response'.endpoint = "cancel") =>
              /\ db.status \in Terminal
              /\ db' = db
              /\ response'.code = 200
              /\ response'.status = db.status]_vars
  /\ [](mark_cancel_requested(mark_cancel_requested(db)) = mark_cancel_requested(db))

\* A first call was accepted while the job ran; a later call found the job CANCELLED
\* and was answered with that status.
C14_Witness ==
  /\ CancelledDuringRun
  /\ db.status = "CANCELLED"
  /\ cpc = "idle"
  /\ response = Reply("cancel", 200, "CANCELLED", "Analysis is no longer running")

\* A history that holds an initial or refined analysis with a non-empty payload.
RecoverableAnalysis(h) ==
  \E i \in DOMAIN h :
     h[i].type \in {"initial_analysis", "refined_analysis"} /\ ~Falsy(h[i].analysis)

\* The states in which the claim lets results(id) return the job.
PayloadDue(row) ==
  \/ row.status = "COMPLETED"
  \/ /\ row.status \in {"CANCELLED", "FAILED"}
     /\ \/ row.final_analysis \notin {NoneAnalysis, EmptyAnalysis}
        \/ RecoverableAnalysis(row.iteration_history)
        \/ row.iteration_history # <<>>

\* C17: the results endpoint answers 200 with the job exactly when the job is
\* COMPLETED, or CANCELLED or FAILED with a non-empty final_analysis, a recoverable
\* analysis in the history or a non-empty history; in every other state it answers
\* 400 (stated for every reachable row and for every answer the endpoint gives).
C17_ResultsIffCompletedOrPartial ==
  /\ [](/\ results_view(db).code = 200 <=> PayloadDue(db)
        /\ results_view(db).code = 400 <=> ~PayloadDue(db))
  /\ [][(response' # response /\ response'.endpoint = "results") =>
          /\ response'.status = db.status
          /\ response'.code = IF PayloadDue(db) THEN 200 ELSE 400]_vars

\* The partial results of a cancelled job were served.
C17_Witness ==
  /\ db.status = "CANCELLED"
  /\ Len(db.iteration_history) >= 2
  /\ response = Reply("results", 200, "CANCELLED", "")

\* The records of a history that carry an analysis.
AnalysisRecords(h) ==
  {i \in DOMAIN h : h[i].type \in {"initial_analysis", "refined_analysis"}}

\* C18: for every persisted history, get_latest_iteration_analysis returns the analysis
\* of the most recent initial_analysis or refined_analysis record (the latest refined
\* analysis once a REFINE succeeded), and nothing when the history holds no such
\* record.
C18_LatestIsMostRecentAnalysis ==
  get_latest_iteration_analysis(db) =
    IF AnalysisRecords(db.iteration_history) = {} THEN NoneAnalysis
    ELSE db.iteration_history[MaxOf(AnalysisRecords(db.iteration_history))].analysis

\* C15: no row leaves the table while its status is IN_PROGRESS, whatever the
\* interleaving of destroy, bulk_delete and the workers' progress and terminal writes;
\* destroy goes on to its delete only for a job it read as not IN_PROGRESS, and a
\* destroy that reads an IN_PROGRESS job answers 400 and leaves the table unchanged.
C15_NoRunningJobDeleted ==
  /\ [][\A i \in DOMAIN jobs : i \notin DOMAIN jobs' => jobs[i].status # "IN_PROGRESS"]_vars
  /\ [][(dreq.pc = "idle" /\ dreq'.pc = "delete") =>
          /\ dreq'.id \in DOMAIN jobs
          /\ jobs[dreq'.id].status # "IN_PROGRESS"]_vars
  /\ [][(dreq.pc = "idle" /\ reply' # reply /\ reply'.endpoint = "destroy"
          /\ reply'.id \in DOMAIN jobs /\ jobs[reply'.id].status = "IN_PROGRESS") =>
          /\ reply'.code = 400
          /\ jobs' = jobs
          /\ dreq' = dreq]_vars

\* Job 1 is refused while it runs, after job 2 ended and was deleted.
C15_Witness ==
  /\ DOMAIN jobs = {1}
  /\ jobs[1].status = "IN_PROGRESS"
  /\ reply.endpoint = "destroy" /\ reply.id = 1 /\ reply.code = 400

\* C16: bulk_delete answers 400 and deletes nothing when the id list is empty; when
\* its query finds a listed job IN_PROGRESS it is refused: the answer is 400, no job
\* is deleted and running_analyses is exactly the set of listed jobs that are
\* IN_PROGRESS; otherwise its delete removes every listed job that exists and no
\* other, and deleted_count is the number of listed jobs counted just before (the
\* number removed when no other delete takes one of them in between).
C16_BulkDeleteAllOrNothing ==
  [][/\ (breq.pc = "idle" /\ breq'.pc # "idle") => (breq'.ids # {} /\ jobs' = jobs)
     /\ (breq.pc = "idle" /\ reply' # reply /\ reply'.endpoint = "bulk_delete") =>
           /\ reply'.ids = {}
           /\ reply'.code = 400
           /\ jobs' = jobs
           /\ breq' = breq
     /\ (breq.pc = "exists" /\ breq' # breq) =>
           /\ jobs' = jobs
           /\ breq'.pc = IF Running(jobs, breq.ids) # {} THEN "list" ELSE "count"
     /\ (breq.pc = "list" /\ breq' # breq) =>
           /\ reply'.endpoint = "bulk_delete" /\ reply'.ids = breq.ids
           /\ reply'.code = 400
           /\ jobs' = jobs
           /\ reply'.running_analyses =
                {i \in breq.ids \cap DOMAIN jobs : jobs[i].status = "IN_PROGRESS"}
     /\ (breq.pc = "count" /\ breq' # breq) =>
           /\ jobs' = jobs
           /\ breq'.deleted_count = Cardinality(breq.ids \cap DOMAIN jobs)
     /\ (breq.pc = "delete" /\ breq' # breq) =>
           /\ reply'.endpoint = "bulk_delete" /\ reply'.ids = breq.ids
           /\ reply'.code = 200
           /\ DOMAIN jobs' = DOMAIN jobs \ breq.ids
           /\ \A i \in DOMAIN jobs' : jobs'[i] = jobs[i]
           /\ reply'.deleted_count = breq.deleted_count
           /\ breq.deleted_count = Cardinality(breq.ids \cap DOMAIN jobs) =>
                 reply'.deleted_count = Cardinality(DOMAIN jobs \ DOMAIN jobs')]_vars

\* Jobs 1 and 2 are listed, job 1 still runs and job 2 is over: the request is
\* refused with running_analyses = {1} and job 2 is still in the table.
C16_Witness ==
  /\ reply.endpoint = "bulk_delete" /\ reply.ids = {1, 2}
  /\ reply.code = 400 /\ reply.running_analyses = {1}
  /\ DOMAIN jobs = {1, 2}
  /\ jobs[1].status = "IN_PROGRESS" /\ jobs[2].status = "FAILED"

FingerprintOf(d) == create_document_fingerprint(d.content, d.metadata)

\* The worker whose service changes on this step, and the document of the
\* add_document call that starts on this step (the call either returns at once or
\* goes on to the RAG store).
CallStarts == started' = started + 1
CallReturnsAtOnce == CallStarts /\ service' = service
CallDoc ==
  IF service' = service THEN outcome'.doc
  ELSE service'[CHOOSE w \in IngestWorkers : service'[w] # service[w]].doc

C20_ConcurrentIngestDeduplicates ==
  \A f \in Fingerprints : accepted[f] <= 1

\* The positions at which a DRAFT, EVALUATE or REFINE call is made.
PhaseCalls == {"draft", "evaluate", "refine"}

C29_OneResultPerQuery ==
  \A i \in 1..Len(iteration_history) :
     iteration_history[i].type = "rag_queries" =>
        /\ Len(iteration_history[i].results) = Len(iteration_history[i].queries)
        /\ \A j \in 1..Len(iteration_history[i].queries) :
              iteration_history[i].results[j] = iteration_history[i].queries[j]

C22_ForceStoreAccepted ==
  outcome.doc \in ForcedDocs => outcome.success

\* C26: every text passed to the add of the RAG store is the document text of the
\* call that adds it, made of the metadata header and the content; no section of it
\* is a summary, whether the summary task has finished before the add or not.
C26_NoSummaryInRagText ==
  /\ [][rag_texts' # rag_texts =>
           \E w \in IngestWorkers :
              /\ service[w].pc = "store"
              /\ rag_texts' = rag_texts \cup
                   {document_text(service[w].doc.content, service[w].doc.metadata)}]_vars
  /\ [](\A t \in rag_texts :
          /\ \E d \in Docs : t[1][2] = d.metadata.company_name /\ t[2][2] = d.content
          /\ \A i \in 1..Len(t) :
                /\ t[i] \notin Summaries
                /\ t[i][1] \in {"Document Metadata", "Document Content"})

\* The summary task of a call has returned the summary of the LLM, and the add task
\* of the same call has added the document text to the store.
C26_Witness ==
  \E w \in IngestWorkers :
     /\ service[w].pc = "store"
     /\ service[w].summary =
          ai_summary(service[w].doc.content, service[w].doc.metadata)
     /\ service[w].rag_success = "yes"
     /\ document_text(service[w].doc.content, service[w].doc.metadata) \in rag_texts

\* C30: when two services ingest two different documents, the registry file holds
\* both entries once both calls have returned success.
C30_BothEntriesPersisted ==
  (accepted[FingerprintOf(Filing)] >= 1 /\ accepted[FingerprintOf(BetaFiling)] >= 1)
    => {FingerprintOf(Filing), FingerprintOf(BetaFiling)}
         \subseteq DOMAIN load_document_registry(registry_file)

\* C27: after prune_data or complete_reset has completed, the search cache of the
\* service is empty.
C27_CacheEmptyAfterPrune ==
  (sanswer.op \in {"prune", "reset"} /\ sanswer.ok) => DOMAIN search_cache = {}

\* The last call of execute_rag_query returned the dict of its try block.
Returned == gresult # NoResult /\ ~gresult.error

\* The grader answered validation_passed = false and the web search returned a text
\* in which "$", "2024" and "Reuters" occur.
ClaimedWebText ==
  /\ Returned
  /\ gresult.validation_result.validation_passed = "false"
  /\ gresult.enhanced_response.search_available
  /\ {"$", "2024", "Reuters"} \subseteq gresult.enhanced_response.response.tokens

\* Source web, the final answer is the web text as it is, and the assessment, whose
\* score is the mean of the five indicators, meets the standards.
WebAnswerAsIs ==
  LET enhanced_response == gresult.enhanced_response
      quality == enhanced_response.quality_assessment
  IN /\ gresult.source = "gemini_search"
     /\ gresult.results = <<enhanced_response.response>>
     /\ gresult.results[1].suffix = ""
     /\ quality.meets_financial_standards
     /\ quality.quality_score =
          2 * Cardinality({k \in DOMAIN quality.quality_indicators :
                             quality.quality_indicators[k]})
     /\ quality.quality_score >= 6
     /\ quality.quality_indicators.has_specific_data
     /\ quality.quality_indicators.appropriate_length
     /\ quality.quality_indicators.no_disclaimers_only

\* C23 as stated: when the grader fails the RAG answer and the web search returns a
\* text containing "$", "2024" and "Reuters", the source is web, the final answer is
\* the web text with no warning and the assessment meets the standards.
C23_WebTextMeetsStandards == ClaimedWebText => WebAnswerAsIs

\* C23 amended: the same, for a web text whose length is strictly between 100 and
\* 2000 characters and which, when shorter than 200 characters, holds no disclaimer
\* phrase.
C23_WebTextOfProperLengthMeetsStandards ==
  (/\ ClaimedWebText
   /\ 100 < gresult.enhanced_response.response.len
   /\ gresult.enhanced_response.response.len < 2000
   /\ \/ gresult.enhanced_response.response.len >= 200
      \/ "cannot provide" \notin gresult.enhanced_response.response.tokens)
    => WebAnswerAsIs

\* The web text holds the three phrases and no time frame, is 500 characters long,
\* and was returned as the final answer.
C23_Witness ==
  /\ ClaimedWebText
  /\ gresult.enhanced_response.response = Text("web", {"$", "2024", "Reuters"}, 500)
  /\ gresult.results = <<Text("web", {"$", "2024", "Reuters"}, 500)>>
  /\ gresult.source = "gemini_search"

\* C24: the final answers and the reported source of a result agree: a web text that
\* meets the standards is the answer, with source web; one that does not is the
\* answer with the warning appended; in every other case the answers are the
\* original RAG strings and the source is rag.
C24_AnswersAndSourceAgree ==
  Returned =>
    LET enhanced_response == gresult.enhanced_response
        augmented == /\ enhanced_response.present
                     /\ enhanced_response.search_available
                     /\ enhanced_response.response # NoneText
                     /\ enhanced_response.response.len > 0
    IN IF augmented /\ enhanced_response.quality_assessment.meets_financial_standards
       THEN /\ gresult.results = <<enhanced_response.response>>
            /\ gresult.source = "gemini_search"
       ELSE IF augmented
       THEN /\ gresult.results = <<Concat(enhanced_response.response, warning)>>
            /\ gresult.source = "gemini_search"
       ELSE /\ gresult.results = gresult.original_rag_results
            /\ gresult.source = "rag"

\* C25: the grader never blocks the call.  A grader that is not configured or whose
\* call raises gives validation_passed = true with confidence 0.5 and no web search
\* is made; a reply that cannot be parsed gives validation_passed = false; a web
\* search that is unavailable or raises leaves the original RAG strings as the
\* answer; every step of a call leads on, and every call returns a result for its
\* query.
C25_GraderNeverBlocks ==
  /\ [][/\ (gcall.pc = "validate" /\ gcall' # gcall) =>
              LET validation == gcall'.validation
              IN /\ gcall'.pc \in {"search", "final"}
                 /\ (~gcall.configured \/ validation.validation_available = "false")
                      => /\ validation.validation_passed = "true"
                         /\ validation.confidence_score = 5
                         /\ gcall'.pc = "final"
                 /\ validation.reasoning = "Failed to parse validation response"
                      => /\ validation.validation_passed = "false"
                         /\ gcall'.pc = "search"
        /\ (gcall.pc = "search" /\ gcall' # gcall) => gcall'.pc = "final"
        /\ gdone' # gdone =>
              /\ gdone' = gdone + 1
              /\ gcall'.pc = "idle"
              /\ gresult' # NoResult
              /\ gresult'.query \in SearchQueries
              /\ gcall.pc = "final" => gresult'.query = gcall.query /\ ~gresult'.error]_vars
  /\ [](Returned =>
          /\ gresult.validation_result.validation_available = "false"
               => /\ gresult.validation_result.validation_passed = "true"
                  /\ gresult.validation_result.confidence_score = 5
                  /\ ~gresult.enhanced_response.present
                  /\ gresult.results = gresult.original_rag_results
          /\ (gresult.enhanced_response.present
                /\ ~gresult.enhanced_response.search_available)
               => gresult.results = gresult.original_rag_results)
  /\ [](gcall.pc # "idle" => ENABLED (Validate \/ SearchWithGemini \/ Finish))

\* The call of the grader raised during the second query of a run: the result holds
\* the original RAG string, and the first query had returned before.
C25_Witness ==
  /\ Returned
  /\ gdone >= 2
  /\ gresult.validation_result.reasoning = "Validation error"
  /\ gresult.validation_result.validation_passed = "true"
  /\ gresult.results = <<RagText>>
  /\ gresult.source = "rag"

\* ---------------------------------------------------------------------------
\* Claims C31..C40
\* ---------------------------------------------------------------------------

TerminalStatuses == {"COMPLETED", "FAILED", "CANCELLED"}

\* C31: every created job eventually reaches COMPLETED, FAILED or CANCELLED when
\* the worker keeps running and each of its calls returns or raises; no execution
\* of the worker leaves the job IN_PROGRESS forever.
C31_EveryJobTerminates == <>(db.status \in TerminalStatuses)

\* C32: when the add to the RAG store fails during an ingestion, the call returns
\* success = FALSE and the summary that was generated is written to a registry
\* entry of the document.
C32_SummaryRegisteredOnRagFailure ==
  [][\A w \in IngestWorkers :
       (/\ service[w].pc = "store"
        /\ service[w].rag_success = "no"
        /\ service'[w].pc = "ready") =>
          LET d == service[w].doc
              f == create_document_fingerprint(d.content, d.metadata)
          IN /\ ~outcome'.success
             /\ f \in DOMAIN service'[w].document_registry
             /\ service'[w].document_registry[f].summary = service[w].summary]_vars

\* What the similar-document check compares of a document.
Triple(metadata) ==
  <<Lower(metadata.company_name), Lower(metadata.form_type), metadata.filing_date>>

UniqueTriples(registry) ==
  \A f, g \in DOMAIN registry :
     Triple(registry[f].metadata) = Triple(registry[g].metadata) => f = g

\* The worker whose add_document call starts on this step.
CallWorker ==
  IF service' = service THEN outcome'.worker
  ELSE CHOOSE w \in IngestWorkers : service'[w] # service[w]

\* C33: no two entries of a registry, that of a service or the one on file, have the
\* same lowercased company name, lowercased form type and filing date; an
\* add_document call for a document whose triple is that of an entry of the registry
\* of its service returns at once a duplicate outcome and changes neither the
\* registry of the service, nor the file, nor the RAG store.
C33_OneEntryPerTriple ==
  /\ [](/\ UniqueTriples(load_document_registry(registry_file))
        /\ \A w \in IngestWorkers : UniqueTriples(service[w].document_registry))
  /\ [][(/\ CallStarts
         /\ \E f \in DOMAIN service[CallWorker].document_registry :
               Triple(service[CallWorker].document_registry[f].metadata) =
                 Triple(CallDoc.metadata)) =>
            /\ CallReturnsAtOnce
            /\ outcome'.duplicate /\ ~outcome'.success
            /\ outcome'.fingerprint \in DOMAIN service[CallWorker].document_registry
            /\ registry_file' = registry_file
            /\ rag_store' = rag_store
            /\ rag_texts' = rag_texts]_vars

\* The filing is registered; the call for the same filing under another accession
\* number, in capitals, was answered "Similar document exists", and the registry on
\* file still holds the one entry.
C33_Witness ==
  /\ outcome.duplicate
  /\ outcome.doc = Forced(FilingUpper)
  /\ outcome.reason = "Similar document exists"
  /\ outcome.fingerprint = FingerprintOf(Filing)
  /\ DOMAIN load_document_registry(registry_file) = {FingerprintOf(Filing)}
  /\ rag_store[Forced(FilingUpper)] = 0

\* C34: in every persisted state final_completeness_score lies in [0, 10] and the
\* completeness_score of every evaluation record is an integer of 1..10, whatever
\* the evaluation of the LLM carries.
C34_ScoresInRange ==
  /\ IsNumber(db.final_completeness_score)
  /\ db.final_completeness_score >= 0 /\ db.final_completeness_score <= 10
  /\ \A i \in Evaluations(db.iteration_history) :
        db.iteration_history[i].completeness_score \in 1..10

\* C35: once cancel_requested is TRUE in the row of a job, it is TRUE in the row
\* ever after, also after the terminal write the worker makes from the object it
\* loaded when it started.
C35_CancelRequestedStays ==
  [][db.cancel_requested => db'.cancel_requested]_vars

\* The last record that carries an analysis, as the controller appends them.
LastAnalysisRecord(h) ==
  h[CHOOSE i \in AnalysisRecords(h) : \A j \in AnalysisRecords(h) : j <= i]

WellFormedHistory(h) ==
  h # <<>> =>
    /\ h[1].type = "initial_analysis" /\ h[1].iteration = 0
    /\ \A i \in 2..Len(h) :
          \/ /\ h[i].type = "evaluation"
             /\ \/ h[i-1].type = "initial_analysis" /\ h[i].iteration = 1
                \/ /\ h[i-1].type = "refined_analysis"
                   /\ h[i].iteration = h[i-1].iteration + 1
          \/ /\ h[i].type = "rag_queries"
             /\ h[i-1].type = "evaluation"
             /\ h[i].iteration = h[i-1].iteration
          \/ /\ h[i].type = "refined_analysis"
             /\ h[i-1].type = "rag_queries"
             /\ h[i].iteration = h[i-1].iteration

\* C37: every history, the one the controller holds, the one it returns and the
\* one persisted, starts with one initial_analysis record of iteration 0 and goes on,
\* iteration after iteration, with an evaluation record, optionally a rag_queries
\* record and optionally a refined_analysis record of that iteration; only the last
\* iteration may lack its rag_queries or refined_analysis record.
C37_HistoryIsWellFormed ==
  /\ WellFormedHistory(iteration_history)
  /\ WellFormedHistory(db.iteration_history)
  /\ "iteration_history" \in results.keys => WellFormedHistory(results.iteration_history)

\* A persisted history of two iterations, the second without its refined analysis.
C37_Witness ==
  /\ pc = "done"
  /\ Len(db.iteration_history) = 6
  /\ db.iteration_history[4].type = "refined_analysis"
  /\ db.iteration_history[6].type = "rag_queries"
  /\ db.iteration_history[6].iteration = 2

\* No add_document call is under way.
NoCallUnderWay == \A w \in IngestWorkers : service[w].pc \in {"none", "ready"}

\* The texts of the documents the registry on file holds an entry for.
RegisteredTexts ==
  LET registry == load_document_registry(registry_file)
  IN {document_text(registry[f].full_content, registry[f].metadata) :
        f \in DOMAIN registry}

\* C38: after every completed add_document call, successful, duplicate or failed,
\* the text of a document is in the RAG store if and only if the registry holds
\* an entry for it, and no text was added to the RAG store twice.
C38_StoreMatchesRegistry ==
  NoCallUnderWay =>
    /\ rag_texts = RegisteredTexts
    /\ \A d \in Docs : rag_store[d] <= 1

\* C39: a search whose store call fails returns the empty list and leaves no cache
\* entry for its query and mode, so that a later search of the same query and mode
\* asks the store again.  (The store holds knowledge, so the empty list of a search
\* that went to the store is that of a failed call.)
C39_FailedSearchNotCached ==
  [][\A query \in SearchQueries, search_type \in SearchTypes :
       LET cache_key == create_cache_key(query, search_type)
       IN (/\ cache_key \notin DOMAIN search_cache
           /\ cognee_search(search_type_map(search_type), query, knowledge) # <<>>
           /\ sanswer' = Answer_("search", cache_key, <<>>, TRUE, TRUE)) =>
             cache_key \notin DOMAIN search_cache']_vars

\* C40: the row of a document becomes STORED only by the thread that processes it,
\* after add_document returned success = True for it; a duplicate outcome or a
\* failed ingestion never marks it STORED, in each of the three paths.
C40_StoredOnlyAfterSuccess ==
  [][\A id \in DocumentIds :
       (documents'[id].status = "STORED" /\ documents[id].status # "STORED") =>
          /\ dthread.pc = "mark"
          /\ dthread.id = id
          /\ dthread.success.success]_vars

====
